---- MODULE Spec2Model ----
(***************************************************************************)
(* A model of the tomato template compiler (donjaime/tomato).             *)
(*                                                                         *)
(* Strings.  A Go string whose characters the code inspects (text-node    *)
(* data, attribute values, file names, class names) is a sequence of      *)
(* one-character strings.  A string the code only copies (a literal of    *)
(* the generator, a tag name, an attribute key, an option) is one token.  *)
(* A buffer (stringBuilder, bytes.Buffer) is the sequence of the tokens   *)
(* and characters appended to it, in order.                               *)
(***************************************************************************)
EXTENDS Integers, Sequences, FiniteSets, TLC

----------------------------------------------------------------------------
(* Bounds of the model. *)

\* Largest number of nodes below <body> in an enumerated template tree.
MaxNodes == 3

\* Largest number of characters of an enumerated text node.
MaxTextLen == 2

\* Largest number of nodes below the row of an enumerated wrapped template.
MaxRowNodes == 2

\* Largest number of template files in the input directory.
MaxFiles == 2

\* Largest number of runs of the program in one behaviour.
MaxRuns == 2

----------------------------------------------------------------------------
(* Characters and the string functions of the Go standard library. *)

\* U+00A0, the non-breaking space, as one character.
NBSP == "NBSP"

\* unicode.IsSpace on the characters of the model (Latin-1 white space).
IsSpace(r) == r \in {" ", "\t", "\n", "\r", NBSP}

SetMin(S) == CHOOSE x \in S : \A y \in S : x <= y
SetMax(S) == CHOOSE x \in S : \A y \in S : y <= x

\* strings.TrimFunc(s, f): s without its leading and trailing characters
\* that satisfy f.
TrimFunc(s, f(_)) ==
  LET keep == {i \in 1..Len(s) : ~f(s[i])}
  IN IF keep = {} THEN <<>> ELSE SubSeq(s, SetMin(keep), SetMax(keep))

\* Whether sub occurs in s at 0-based offset i.
OccursAt(s, sub, i) ==
  /\ i >= 0
  /\ i + Len(sub) <= Len(s)
  /\ SubSeq(s, i + 1, i + Len(sub)) = sub

\* strings.Index(s, sub): 0-based offset of the first occurrence, or -1.
Index(s, sub) ==
  LET at == {i \in 0..Len(s) : OccursAt(s, sub, i)}
  IN IF at = {} THEN -1 ELSE SetMin(at)

\* strings.LastIndex(s, sub): 0-based offset of the last occurrence, or -1.
LastIndex(s, sub) ==
  LET at == {i \in 0..Len(s) : OccursAt(s, sub, i)}
  IN IF at = {} THEN -1 ELSE SetMax(at)

\* strings.Replace(s, old, new, -1) for a one-character old.
RECURSIVE ReplaceAll(_, _, _)
ReplaceAll(s, old, new) ==
  IF s = <<>> THEN <<>>
  ELSE (IF Head(s) = old THEN new ELSE <<Head(s)>>) \o ReplaceAll(Tail(s), old, new)

\* strings.Replace(s, old, new, 1): the first occurrence only.
ReplaceFirst(s, old, new) ==
  LET i == Index(s, old)
  IN IF i < 0 THEN s
     ELSE SubSeq(s, 1, i) \o new \o SubSeq(s, i + Len(old) + 1, Len(s))

\* strings.ToUpper on one character of the model.
ToUpper(c) ==
  CASE c = "a" -> "A"
    [] c = "b" -> "B"
    [] c = "c" -> "C"
    [] OTHER -> c

\* strings.ToLower on a tag name (one token).
ToLower(tag) ==
  CASE tag = "DIV" -> "div"
    [] tag = "TOMATO" -> "tomato"
    [] OTHER -> tag

\* The characters of a byte, for comparing strings as sort.Strings does.
Code(c) ==
  CASE c = "." -> 46
    [] c = "/" -> 47
    [] c = "B" -> 66
    [] c = "a" -> 97
    [] c = "b" -> 98
    [] c = "c" -> 99
    [] c = "h" -> 104
    [] c = "m" -> 109
    [] c = "o" -> 111
    [] c = "t" -> 116
    [] c = "v" -> 118
    [] OTHER -> 0

----------------------------------------------------------------------------
(* Special attributes on tomato template elements. *)

FieldRefAttr == "_ref"
MockAttr == "_ignorecontent"
TunnelledIdAttr == "_id"
IdAttr == "id"
DebugIdAttr == "debug-id"
StripMeAttr == "_stripme"

blockedAttrs == <<FieldRefAttr, MockAttr>>

\* The extension of a template file and the suffix of a class name.
tomatoFileExtension == <<".", "h", "t", "m", "t", "o">>
ViewSuffix == <<"V", "i", "e", "w">>

----------------------------------------------------------------------------
(* The parsed document (golang.org/x/net/html): an arena of nodes.        *)
(* doc[i] = [type, data, text, attr, parent]; node 0 is nil.  The children *)
(* of a node are the nodes naming it as parent, in ascending order.       *)

Nil == 0

Attr(ns, key, val) == [ns |-> ns, key |-> key, val |-> val]

DocNode(parent) == [type |-> "doc", data |-> "", text |-> <<>>, attr |-> <<>>, parent |-> parent]
ElemNode(tag, attr, parent) ==
  [type |-> "elem", data |-> tag, text |-> <<>>, attr |-> attr, parent |-> parent]
TextNode(text, parent) ==
  [type |-> "text", data |-> "", text |-> text, attr |-> <<>>, parent |-> parent]

RECURSIVE SortedSeq(_)
SortedSeq(S) ==
  IF S = {} THEN <<>> ELSE <<SetMin(S)>> \o SortedSeq(S \ {SetMin(S)})

Kids(doc, n) == SortedSeq({i \in DOMAIN doc : doc[i].parent = n})

FirstChild(doc, n) ==
  LET k == Kids(doc, n) IN IF k = <<>> THEN Nil ELSE k[1]

----------------------------------------------------------------------------
(* Private functions of the generator. *)

escapeText(text) == ReplaceAll(text, "'", <<"\\", "'">>)

\* emitAttr appends one attribute-set call to a buffer.
emitAttr(builder, namespace, key, val) ==
  LET k == IF namespace # "" THEN <<namespace, ":", key>> ELSE <<key>>
  IN builder \o <<".setAttr('">> \o k \o <<"', '">> \o escapeText(val) \o <<"')">>

contains(arr, val) == \E i \in 1..Len(arr) : arr[i] = val

getAttr(node, attr) ==
  LET at == {i \in 1..Len(node.attr) : node.attr[i].key = attr}
  IN IF at = {} THEN <<>> ELSE node.attr[SetMin(at)].val

hasAttr(node, attr) == getAttr(node, attr) # <<>>

indent(depth) == <<"\n  ">> \o [i \in 1..(depth + 1) |-> "  "]

\* Maps a file name to a class name for a generated View.
getViewName_NoUpcase(fileName) ==
  LET slash == LastIndex(fileName, <<"/">>)
      slashStart == IF slash < 0 THEN 0 ELSE slash + 1
      base == SubSeq(fileName, slashStart + 1, Len(fileName))
  IN ReplaceFirst(base, tomatoFileExtension, <<>>) \o ViewSuffix
getViewName(fileName) ==
  LET slash == LastIndex(fileName, <<"/">>)
      slashStart == IF slash < 0 THEN 0 ELSE slash + 1
      base == SubSeq(fileName, slashStart + 1, Len(fileName))
      viewName == ReplaceFirst(base, tomatoFileExtension, <<>>) \o ViewSuffix
  IN <<ToUpper(viewName[1])>> \o SubSeq(viewName, 2, Len(viewName))

debugIdFromViewName(viewName) == SubSeq(viewName, 1, Len(viewName) - Len(ViewSuffix))

----------------------------------------------------------------------------
(* The visitor (visitorData) and its methods.  A method is an operator    *)
(* from the visitor before the call to the visitor after it.              *)

\* typeScriptVisitor{visitorData{GeneratorOptions, forceDebugIds, viewName}}
NewVisitor(opts, forceDebugIds, viewName) ==
  [ opts |-> opts,
    cssText |-> <<>>,
    viewName |-> viewName,
    output |-> <<>>,
    domConstruction |-> <<>>,
    ignoreSubtree |-> FALSE,
    forceDebugIds |-> forceDebugIds,
    refs |-> <<>>,
    appendStack |-> <<>> ]

\* One attribute of transferAttrs' loop, appended to the buffer b.
transferAttr_RefOnly(b, node, attr) ==
  IF attr.key = FieldRefAttr THEN b
  ELSE emitAttr(b, attr.ns, IF TunnelledIdAttr = attr.key THEN IdAttr ELSE attr.key, attr.val)
transferAttr(b, node, attr) ==
  IF contains(blockedAttrs, attr.key)
       \/ (ToLower(node.data) = "tomato" /\ attr.key = "src")
  THEN b
  ELSE emitAttr(b, attr.ns, IF TunnelledIdAttr = attr.key THEN IdAttr ELSE attr.key, attr.val)

RECURSIVE transferAttrsFrom(_, _, _)
transferAttrsFrom(b, node, i) ==
  IF i > Len(node.attr) THEN b
  ELSE transferAttrsFrom(transferAttr(b, node, node.attr[i]), node, i + 1)

transferAttrs(v, node) ==
  [v EXCEPT !.domConstruction = transferAttrsFrom(v.domConstruction, node, 1)]

\* head, on the root element (depth 0).
headRoot(v, node) ==
  LET tagName == ToLower(node.data)
      b1 == v.domConstruction \o indent(0)
              \o <<"super(doc.createElement('", tagName, "'));\n">> \o indent(0) \o <<"this">>
      b2 == IF v.forceDebugIds /\ ~hasAttr(node, DebugIdAttr)
            THEN emitAttr(b1, "", DebugIdAttr, debugIdFromViewName(v.viewName))
            ELSE b1
  IN [v |-> transferAttrs([v EXCEPT !.domConstruction = b2], node), err |-> ""]

\* head, line 646: the nested template names no source.
srcMissing_Never(src) == FALSE
srcMissing(src) == src = <<>>

\* head, lines 652 and 657: v.refs.PushBack(decl).
pushRef_Front(refs, decl) == <<decl>> \o refs
pushRef(refs, decl) == Append(refs, decl)

\* head, on a sub-element (depth > 0): node n of the document, record node.
headSub(v, n, node, depth) ==
  LET tagName == ToLower(node.data)
      fieldName == getAttr(node, FieldRefAttr)
      hasFieldName == fieldName # <<>>
      b1 == v.domConstruction \o indent(depth) \o <<".append(">>
      b2 == IF hasFieldName THEN b1 \o <<"this.">> \o fieldName \o <<" = ">> ELSE b1
      v2 == [v EXCEPT !.appendStack = Append(v.appendStack, n), !.domConstruction = b2]
  IN IF tagName = "tomato"
     THEN LET src == getAttr(node, "src")
              viewName == getViewName(src)
              v3 == [v2 EXCEPT !.ignoreSubtree = TRUE]
          IN IF srcMissing(src)
             THEN [v |-> v3, err |-> "Tomato element with no 'src' attribute!"]
             ELSE [v |-> transferAttrs(
                           [v3 EXCEPT
                              !.domConstruction =
                                 b2 \o <<"<">> \o viewName \o <<">new ">> \o viewName \o <<"(doc)">>,
                              !.refs = IF hasFieldName
                                       THEN pushRef(v.refs, fieldName \o <<": ">> \o viewName)
                                       ELSE v.refs],
                           node),
                   err |-> ""]
     ELSE [v |-> transferAttrs(
                   [v2 EXCEPT
                      !.domConstruction = b2 \o <<v.opts.ViewFactory, "('", tagName, "', doc)">>,
                      !.refs = IF hasFieldName
                               THEN pushRef(v.refs, fieldName \o <<": ", v.opts.ViewBaseClass>>)
                               ELSE v.refs],
                   node),
           err |-> ""]

\* The predicate f of head's text case: trimmable white space, NBSP kept.
trimmable_NoNbsp(r) == IsSpace(r)
trimmable(r) == IF r = NBSP THEN FALSE ELSE IsSpace(r)

\* head, on a text node.
headText(v, node) ==
  IF TrimFunc(node.text, trimmable) # <<>>
  THEN [v EXCEPT !.domConstruction =
          @ \o <<".appendText('">> \o escapeText(ReplaceAll(node.text, "\n", <<>>)) \o <<"')">>]
  ELSE v

\* DF going down the stack.
head_NoSuppress(v, doc, n, depth) ==
  CASE doc[n].type = "elem" ->
         IF depth = 0 THEN headRoot(v, doc[n]) ELSE headSub(v, n, doc[n], depth)
    [] doc[n].type = "text" -> [v |-> headText(v, doc[n]), err |-> ""]
    [] OTHER -> [v |-> v, err |-> ""]
head(v, doc, n, depth) ==
  IF v.ignoreSubtree THEN [v |-> v, err |-> ""]
  ELSE CASE doc[n].type = "elem" ->
              IF depth = 0 THEN headRoot(v, doc[n]) ELSE headSub(v, n, doc[n], depth)
         [] doc[n].type = "text" -> [v |-> headText(v, doc[n]), err |-> ""]
         [] OTHER -> [v |-> v, err |-> ""]

\* DF popping back up the stack.
tail_KeepFlag(v, n) ==
  IF Len(v.appendStack) > 0 /\ v.appendStack[Len(v.appendStack)] = n
  THEN [v EXCEPT !.appendStack = SubSeq(@, 1, Len(@) - 1),
                 !.domConstruction = @ \o <<")">>]
  ELSE v
tail_AnyTop(v, n) ==
  IF Len(v.appendStack) > 0
  THEN [v EXCEPT !.appendStack = SubSeq(@, 1, Len(@) - 1),
                 !.domConstruction = @ \o <<")">>,
                 !.ignoreSubtree = FALSE]
  ELSE v
tail_NoClose(v, n) ==
  IF Len(v.appendStack) > 0 /\ v.appendStack[Len(v.appendStack)] = n
  THEN [v EXCEPT !.appendStack = SubSeq(@, 1, Len(@) - 1), !.ignoreSubtree = FALSE]
  ELSE v
tail(v, n) ==
  IF Len(v.appendStack) > 0 /\ v.appendStack[Len(v.appendStack)] = n
  THEN [v EXCEPT !.appendStack = SubSeq(@, 1, Len(@) - 1),
                 !.domConstruction = @ \o <<")">>,
                 !.ignoreSubtree = FALSE]
  ELSE v

----------------------------------------------------------------------------
(* The view assembler. *)

emitPreamble(v) ==
  [v EXCEPT !.output =
     @ \o <<"\nexport class ">> \o v.viewName \o <<" extends ", v.opts.ViewBaseClass, " {">>]

RECURSIVE emitElementRefsFrom(_, _, _)
emitElementRefsFrom(out, refs, i) ==
  IF i > Len(refs) THEN out
  ELSE emitElementRefsFrom(
         out \o <<"\n  ">> \o refs[i] \o <<";">> \o (IF i = Len(refs) THEN <<"\n">> ELSE <<>>),
         refs, i + 1)

emitElementRefs(v) == [v EXCEPT !.output = emitElementRefsFrom(@, v.refs, 1)]

emitDomConstruction(v) ==
  [v EXCEPT !.output =
     @ \o <<"\n  constructor(doc: Document = document) {">> \o v.domConstruction \o <<";\n  }">>]

emitPostamble(v) == [v EXCEPT !.output = @ \o <<"\n}\n">>]

getView(v) == v.output

getCss(v) == v.cssText

setCss(v, cssText) == [v EXCEPT !.cssText = cssText]

generateView(v) == getView(emitPostamble(emitDomConstruction(emitElementRefs(emitPreamble(v)))))

----------------------------------------------------------------------------
(* The source loader: walk. *)

StyleOpen == "<style>"
StyleClose == "</style>"

\* The document html.Parse returns for empty markup: html, head and an
\* empty body.
SkeletonDoc ==
  <<DocNode(Nil), ElemNode("html", <<>>, 1), ElemNode("head", <<>>, 2),
    ElemNode("body", <<>>, 2)>>

\* The body element of a parsed document.
Body == Len(SkeletonDoc)

\* What html.Parse builds for the markup that follows the template's own:
\* a text is appended to the text before it or becomes a text node, a
\* <style> opens a style element of the body whose content is raw text up
\* to the next </style>, and a stray </style> is ignored.  open is the
\* style element being filled, or Nil.
RECURSIVE ParseTail(_, _, _)
ParseTail(d, rest, open) ==
  IF rest = <<>> THEN d
  ELSE LET t == Head(rest)
           par == IF open = Nil THEN Body ELSE open
       IN CASE t = StyleClose -> ParseTail(d, Tail(rest), Nil)
            [] t = StyleOpen /\ open = Nil ->
                 ParseTail(Append(d, ElemNode("style", <<>>, Body)), Tail(rest), Len(d) + 1)
            [] OTHER ->
                 IF d[Len(d)].type = "text" /\ d[Len(d)].parent = par
                 THEN ParseTail([d EXCEPT ![Len(d)].text = @ \o <<t>>], Tail(rest), open)
                 ELSE ParseTail(Append(d, TextNode(<<t>>, par)), Tail(rest), open)

\* html.Parse, the external parser, on the markup walk hands it.  The
\* markup of a template is the token "M", which opens the markup; parsed
\* is the document the parser builds for it.  Without it the document
\* starts with an empty body.
ParseHtml(markup, parsed) ==
  IF markup # <<>> /\ markup[1] = "M"
  THEN ParseTail(parsed, Tail(markup), Nil)
  ELSE ParseTail(SkeletonDoc, markup, Nil)

\* walk, lines 809-819: slurp off the Css.  contents[a:b] panics in Go
\* when a > b.
slurpCss(contents) ==
  LET start == LastIndex(contents, <<StyleOpen>>)
      end == LastIndex(contents, <<StyleClose>>)
  IN IF start >= 0 /\ end >= 0
     THEN IF start + 1 > end
          THEN [panic |-> TRUE, found |-> TRUE, css |-> <<>>, markup |-> <<>>]
          ELSE [panic |-> FALSE, found |-> TRUE,
                css |-> SubSeq(contents, start + 2, end),
                markup |-> SubSeq(contents, 1, start)]
     ELSE [panic |-> FALSE, found |-> FALSE, css |-> <<>>, markup |-> contents]

\* findRoot: the first child of the first node, in document order, whose
\* Data is "body" and that has a child.
RECURSIVE findRoot(_, _)
RECURSIVE findRootIn(_, _, _)
findRoot(doc, n) ==
  IF doc[n].data = "body" THEN FirstChild(doc, n)
  ELSE findRootIn(doc, Kids(doc, n), 1)
findRootIn(doc, kids, i) ==
  IF i > Len(kids) THEN Nil
  ELSE LET rootElem == findRoot(doc, kids[i])
       IN IF rootElem # Nil THEN rootElem ELSE findRootIn(doc, kids, i + 1)

firstNonWhiteSpaceChild(doc, n) ==
  LET el == {c \in DOMAIN doc : doc[c].parent = n /\ doc[c].type = "elem"}
  IN IF el = {} THEN n ELSE SetMin(el)

\* The hack for <tr> root elements: a root carrying _stripme is replaced
\* by its first element child, and a tbody by its first element child.
strip_KeepTbody(doc, rootElem) ==
  IF rootElem = Nil THEN rootElem
  ELSE IF \E i \in 1..Len(doc[rootElem].attr) : doc[rootElem].attr[i].key = StripMeAttr
       THEN firstNonWhiteSpaceChild(doc, rootElem)
       ELSE rootElem
strip(doc, rootElem) ==
  IF rootElem = Nil THEN rootElem
  ELSE IF \E i \in 1..Len(doc[rootElem].attr) : doc[rootElem].attr[i].key = StripMeAttr
       THEN LET c == firstNonWhiteSpaceChild(doc, rootElem)
            IN IF doc[c].data = "tbody" THEN firstNonWhiteSpaceChild(doc, c) ELSE c
       ELSE rootElem

\* The traversal of walk (traverse), as an agenda of pending calls: an
\* item "head" is a call traverse(n, depth) about to run, an item "tail"
\* is the visitor.tail(n, depth) that ends such a call.
Item(op, n, depth) == [op |-> op, n |-> n, depth |-> depth]

TravState(v, agenda, err) == [v |-> v, agenda |-> agenda, err |-> err]

traverseStep(doc, ts) ==
  LET it == Head(ts.agenda)
      rest == Tail(ts.agenda)
  IN IF it.op = "head"
     THEN IF it.n = Nil
          THEN TravState(ts.v, <<>>, "Template cannot be empty")
          ELSE LET r == head(ts.v, doc, it.n, it.depth)
                   kids == Kids(doc, it.n)
               IN IF r.err # "" THEN TravState(r.v, <<>>, r.err)
                  ELSE TravState(r.v,
                         [i \in 1..Len(kids) |-> Item("head", kids[i], it.depth + 1)]
                           \o <<Item("tail", it.n, it.depth)>> \o rest,
                         "")
     ELSE TravState(tail(ts.v, it.n), rest, "")

RECURSIVE traverse(_, _)
traverse(doc, ts) ==
  IF ts.agenda = <<>> THEN ts ELSE traverse(doc, traverseStep(doc, ts))

\* walk up to the call of traverse: the visitor with its stylesheet set,
\* the parsed document and the pending call traverse(rootElem, 0).
walkLoad(v, contents, parsed) ==
  LET s == slurpCss(contents)
      doc == ParseHtml(s.markup, parsed)
  IN IF s.panic
     THEN [doc |-> SkeletonDoc, ts |-> TravState(v, <<>>, "panic: slice bounds out of range")]
     ELSE [doc |-> doc,
           ts |-> TravState(IF s.found THEN setCss(v, s.css) ELSE v,
                            <<Item("head", strip(doc, findRoot(doc, 1)), 0)>>, "")]

\* typeScriptGenerator.generateView on a readable file: the generated
\* unit, or the error.
View(viewText, cssText) == [ViewText |-> viewText, CssText |-> cssText]

g_generateView(opts, fileName, contents, parsed, forceDebugIds) ==
  LET l == walkLoad(NewVisitor(opts, forceDebugIds, getViewName(fileName)), contents, parsed)
      ts == traverse(l.doc, l.ts)
  IN IF ts.err # "" THEN [view |-> View(<<>>, <<>>), err |-> ts.err]
     ELSE [view |-> View(generateView(ts.v), getCss(ts.v)), err |-> ""]

----------------------------------------------------------------------------
(* The inputs of the model: template documents, as html.Parse builds them. *)

RECURSIVE AncSelf(_, _)
AncSelf(p, j) == IF j = 0 THEN {} ELSE {j} \cup AncSelf(p, p[j])

\* The parent vectors of the ordered forests of n nodes numbered in
\* document order (0 is <body>).
RECURSIVE ParentVecs(_)
ParentVecs(n) ==
  IF n = 0 THEN {<<>>}
  ELSE {Append(p, q) : <<p, q>> \in
          {<<p, q>> \in ParentVecs(n - 1) \X (0..(n - 1)) :
             q \in {0} \cup AncSelf(p, n - 1)}}

MkDoc(p, l) ==
  SkeletonDoc \o [i \in 1..Len(p) |-> [l[i] EXCEPT !.parent = Body + p[i]]]

\* The documents whose body holds a forest of n nodes labelled from Labels;
\* only elements have children.
DocsOfSize(n, Labels) ==
  {MkDoc(pl[1], pl[2]) : pl \in
     {pl \in ParentVecs(n) \X [1..n -> Labels] :
        \A i \in 1..n : pl[1][i] # 0 => pl[2][pl[1][i]].type = "elem"}}

DocsUpTo(n, Labels) == UNION {DocsOfSize(k, Labels) : k \in 0..n}

FileA == <<"v", "/", "a", ".", "h", "t", "m", "t", "o">>
FileB == <<"v", "/", "b", ".", "h", "t", "m", "t", "o">>
FileBig == <<"v", "/", "B", ".", "h", "t", "m", "t", "o">>
SrcC == <<"c", ".", "h", "t", "m", "t", "o">>

DefaultOpts ==
  [ViewBaseClass |-> "View", ViewFactory |-> "createView", ImportLocation |-> "../ts/src/view"]

\* Node labels of the structural family: plain and marked elements, nested
\* template references with and without src, and a text.
StructLabels ==
  { ElemNode("div", <<>>, Nil),
    ElemNode("div", <<Attr("", FieldRefAttr, <<"a">>)>>, Nil),
    ElemNode("div", <<Attr("", FieldRefAttr, <<"b">>)>>, Nil),
    ElemNode("tomato", <<Attr("", "src", SrcC)>>, Nil),
    ElemNode("tomato", <<Attr("", FieldRefAttr, <<"a">>), Attr("", "src", SrcC)>>, Nil),
    ElemNode("tomato", <<>>, Nil),
    TextNode(<<"x">>, Nil) }

----------------------------------------------------------------------------
(* The output aggregator: tomato.go. *)

\* typeScriptGenerator.EmitPreamble (EmitPostamble appends nothing).
EmitPreamble(buffer, opts) ==
  buffer \o <<"import { ", opts.ViewBaseClass, ", ", opts.ViewFactory, " } from '",
              opts.ImportLocation, "';">>

EmitPostamble(buffer) == buffer

\* a < b as Go compares strings: byte by byte.
RECURSIVE StringLess(_, _)
StringLess(a, b) ==
  IF b = <<>> THEN FALSE
  ELSE IF a = <<>> THEN TRUE
  ELSE IF Code(Head(a)) # Code(Head(b)) THEN Code(Head(a)) < Code(Head(b))
  ELSE StringLess(Tail(a), Tail(b))

RECURSIVE InsertSorted(_, _)
InsertSorted(sorted, k) ==
  IF sorted = <<>> THEN <<k>>
  ELSE IF StringLess(k, Head(sorted)) THEN <<k>> \o sorted
  ELSE <<Head(sorted)>> \o InsertSorted(Tail(sorted), k)

\* sort.Strings(keys).
RECURSIVE sortStrings(_)
sortStrings_Unsorted(keys) == keys
sortStrings(keys) ==
  IF keys = <<>> THEN <<>>
  ELSE InsertSorted(sortStrings(SubSeq(keys, 1, Len(keys) - 1)), keys[Len(keys)])

\* The sequences that list every element of S once: the orders in which
\* a directory walk or a Go map iteration may yield S.
Orders(S) ==
  {o \in [1..Cardinality(S) -> S] : \A x \in S : \E i \in 1..Cardinality(S) : o[i] = x}

\* writeTomatoOutput, lines 191-215: the two buffers, from the views and
\* the order keys in which the map yields its keys.
RECURSIVE aggregateFrom_AlwaysSeparator(_, _, _, _)
aggregateFrom_AlwaysSeparator(bufs, views, keys, i) ==
  IF i > Len(keys) THEN bufs
  ELSE LET content == views[keys[i]]
       IN aggregateFrom_AlwaysSeparator(
            [viewText |-> bufs.viewText \o content.ViewText \o <<"\n\n">>,
             cssText |-> bufs.cssText \o content.CssText \o <<"\n\n">>],
            views, keys, i + 1)
RECURSIVE aggregateFrom(_, _, _, _)
aggregateFrom(bufs, views, keys, i) ==
  IF i > Len(keys) THEN bufs
  ELSE LET content == views[keys[i]]
       IN aggregateFrom(
            [viewText |-> bufs.viewText \o content.ViewText \o <<"\n\n">>,
             cssText |-> IF content.CssText # <<>>
                         THEN bufs.cssText \o content.CssText \o <<"\n\n">>
                         ELSE bufs.cssText],
            views, keys, i + 1)

aggregate(views, keys, opts) ==
  LET b == aggregateFrom([viewText |-> EmitPreamble(<<>>, opts), cssText |-> <<>>],
                         views, sortStrings(keys), 1)
  IN [viewText |-> EmitPostamble(b.viewText), cssText |-> b.cssText]

\* writeTomatoOutput, line 224: the path of the stylesheet file.
cssOutFile(outFile) ==
  SubSeq(outFile, 1, LastIndex(outFile, <<".">>)) \o <<".", "s", "c", "s", "s">>

\* A file of the output directory.
NoFile == [exists |-> FALSE, readable |-> FALSE, data |-> <<>>]
DiskFile(readable, data) == [exists |-> TRUE, readable |-> readable, data |-> data]

existingFileContentMatches_LenOnly(file, expectedData) ==
  IF ~(file.exists /\ file.readable) THEN FALSE
  ELSE Len(expectedData) = Len(file.data)
existingFileContentMatches(file, expectedData) ==
  IF ~(file.exists /\ file.readable) THEN FALSE
  ELSE IF Len(expectedData) # Len(file.data) THEN FALSE
  ELSE expectedData = file.data

\* Whether writeFileIfChanged calls ioutil.WriteFile.
writesFile_Always(file, data) == TRUE
writesFile(file, data) == ~existingFileContentMatches(file, data)

\* ioutil.WriteFile(filename, data, perm): the file after the call, for
\* each way the call may end: "ok", "open" (the file could not be opened
\* and is as before) or "write" (opened and truncated, the write failed).
WriteOutcomes == {"ok", "open", "write"}

WriteFile(file, data, outcome) ==
  CASE outcome = "ok" -> DiskFile(IF file.exists THEN file.readable ELSE TRUE, data)
    [] outcome = "write" -> DiskFile(IF file.exists THEN file.readable ELSE TRUE, <<>>)
    [] OTHER -> file

\* MakeTomatoGenerator.
MakeTomatoGenerator(language) ==
  IF language = "TypeScript" THEN "" ELSE "Language not supported"

\* An input file: unreadable, or its contents and the document the parser
\* builds for its markup.
SourceFile(readable, contents, parsed) ==
  [readable |-> readable, contents |-> contents, parsed |-> parsed]

OpenError == "open: permission denied"

\* generateView on a file of the input directory: os.Open, then the walk.
generateViewOf(opts, fileName, file, forceDebugIds) ==
  IF ~file.readable THEN [view |-> View(<<>>, <<>>), err |-> OpenError]
  ELSE g_generateView(opts, fileName, file.contents, file.parsed, forceDebugIds)

\* GenerateViews, line 579: an error ends the loop.
abortsOn_Never(err) == FALSE
abortsOn(err) == err # ""

----------------------------------------------------------------------------
(* The compilation of one file, typeScriptGenerator.generateView, step by *)
(* step.                                                                   *)

VARIABLES
  input,   \* the file: [fileName, contents, parsed, opts, forceDebugIds]
  pc,      \* "load", "walk", "done" or "failed"
  doc,     \* the document walk traverses
  ts,      \* the traversal: [v, agenda, err]
  unit,    \* the generated unit (View), once done
  cfg,     \* the command line: [language, opts, forceDebugIds, outFile]
  fs,      \* the input directory: path -> SourceFile
  disk,    \* the output files: path -> DiskFile
  run,     \* the run of main in progress
  hist     \* the runs finished: [nruns, last, prev, events]

fileVars == <<input, pc, doc, ts, unit>>
runVars == <<cfg, fs, disk, run, hist>>
vars == <<input, pc, doc, ts, unit, cfg, fs, disk, run, hist>>

Input(fileName, contents, parsed, opts, forceDebugIds) ==
  [fileName |-> fileName, contents |-> contents, parsed |-> parsed, opts |-> opts,
   forceDebugIds |-> forceDebugIds]

NoUnit == View(<<>>, <<>>)

\* Values of the flag tomatoOut: a TypeScript path, and a path whose
\* extension is that of the stylesheet file.
OutFile == <<"g", "/", "v", ".", "t", "s">>
ScssOutFile == <<"g", "/", "v", ".", "s", "c", "s", "s">>

\* A run of main: where it is (pc), the files collected (files), the files
\* still to compile (queue),
\* the views compiled, the error, the aggregated texts, which output files
\* it wrote, what it printed and its exit status; fs0 and disk0 are the
\* input and output files as the run found them, since the events between
\* the previous run and this one.
NewRun(pc0, fs0, disk0, since) ==
  [ pc |-> pc0, files |-> <<>>, queue |-> <<>>, views |-> [p \in {} |-> NoUnit], err |-> "",
    viewText |-> <<>>, cssText |-> <<>>, wroteCss |-> FALSE, wroteCode |-> FALSE,
    stdout |-> "", exitCode |-> 0, fs0 |-> fs0, disk0 |-> disk0, since |-> since ]

NoRun == NewRun("none", <<>>, <<>>, <<>>)

NoHist == [nruns |-> 0, last |-> NoRun, prev |-> NoRun, events |-> <<>>]

\* The state of the program before main has started.
NotStarted ==
  /\ cfg = [language |-> "ts", opts |-> DefaultOpts, forceDebugIds |-> FALSE,
            outFile |-> OutFile]
  /\ fs = <<>>
  /\ disk = <<>>
  /\ run = NoRun
  /\ hist = NoHist

InitFile(inputs) ==
  /\ NotStarted
  /\ input \in inputs
  /\ pc = "load"
  /\ doc = SkeletonDoc
  /\ ts = TravState(NewVisitor(input.opts, input.forceDebugIds, getViewName(input.fileName)),
                    <<>>, "")
  /\ unit = NoUnit

\* walk, up to the call of traverse.
Load ==
  /\ pc = "load"
  /\ LET l == walkLoad(ts.v, input.contents, input.parsed)
     IN /\ doc' = l.doc
        /\ ts' = l.ts
        /\ pc' = IF l.ts.err # "" THEN "failed" ELSE "walk"
  /\ UNCHANGED <<input, unit, cfg, fs, disk, run, hist>>

\* traverse enters a node: the nil check, visitor.head, and the calls for
\* the children and the tail.
Enter ==
  /\ pc = "walk"
  /\ ts.agenda # <<>>
  /\ Head(ts.agenda).op = "head"
  /\ ts' = traverseStep(doc, ts)
  /\ pc' = IF ts'.err # "" THEN "failed" ELSE "walk"
  /\ UNCHANGED <<input, doc, unit, cfg, fs, disk, run, hist>>

\* traverse leaves a node: visitor.tail.
Exit ==
  /\ pc = "walk"
  /\ ts.agenda # <<>>
  /\ Head(ts.agenda).op = "tail"
  /\ ts' = traverseStep(doc, ts)
  /\ UNCHANGED <<input, pc, doc, unit, cfg, fs, disk, run, hist>>

\* generateView(&visitor), visitor.getCss() after a walk without error.
Assemble ==
  /\ pc = "walk"
  /\ ts.agenda = <<>>
  /\ unit' = View(generateView(ts.v), getCss(ts.v))
  /\ pc' = "done"
  /\ UNCHANGED <<input, doc, ts, cfg, fs, disk, run, hist>>

NextFile == Load \/ Enter \/ Exit \/ Assemble

StructInputs ==
  {Input(FileA, <<"M">>, d, DefaultOpts, FALSE) : d \in DocsUpTo(MaxNodes, StructLabels)}

Init == InitFile(StructInputs)

Spec == Init /\ [][NextFile]_vars

----------------------------------------------------------------------------
(* The text family: one text node, of every content up to MaxTextLen      *)
(* characters, below the root, below a sub-element, or below a nested     *)
(* template reference.                                                     *)

TextChars == {"x", " ", "\t", "\n", NBSP, "'"}

Texts == UNION {[1..k -> TextChars] : k \in 1..MaxTextLen}

TextDocs ==
  UNION {
    { MkDoc(<<0, 1>>, <<ElemNode("div", <<>>, Nil), TextNode(t, Nil)>>),
      MkDoc(<<0, 1, 2>>,
            <<ElemNode("div", <<>>, Nil), ElemNode("div", <<>>, Nil), TextNode(t, Nil)>>),
      MkDoc(<<0, 1, 2>>,
            <<ElemNode("div", <<>>, Nil), ElemNode("tomato", <<Attr("", "src", SrcC)>>, Nil),
              TextNode(t, Nil)>>) } : t \in Texts }

TextInputs == {Input(FileA, <<"M">>, d, DefaultOpts, FALSE) : d \in TextDocs}

TextInit == InitFile(TextInputs)

TextSpec == TextInit /\ [][NextFile]_vars

----------------------------------------------------------------------------
(* The wrapped family: a <table _stripme> wrapping a <tbody> wrapping a   *)
(* <tr>, with or without white space between them, around a forest of up  *)
(* to MaxRowNodes nodes.                                                   *)

RowLabels ==
  { ElemNode("td", <<>>, Nil),
    ElemNode("td", <<Attr("", FieldRefAttr, <<"a">>)>>, Nil),
    ElemNode("tomato", <<Attr("", "src", SrcC)>>, Nil),
    TextNode(<<"x">>, Nil) }

WhiteSpace == TextNode(<<"\n", " ">>, Nil)

\* The document: table, [white space], tbody, [white space], tr, and the
\* forest (p, l) below the tr.
MkStripDoc(tableAttr, ws1, ws2, rowAttr, p, l) ==
  LET table == Body + 1
      tbody == table + (IF ws1 THEN 2 ELSE 1)
      row == tbody + (IF ws2 THEN 2 ELSE 1)
  IN SkeletonDoc
       \o <<ElemNode("table", tableAttr, Body)>>
       \o (IF ws1 THEN <<[WhiteSpace EXCEPT !.parent = table]>> ELSE <<>>)
       \o <<ElemNode("tbody", <<>>, table)>>
       \o (IF ws2 THEN <<[WhiteSpace EXCEPT !.parent = tbody]>> ELSE <<>>)
       \o <<ElemNode("tr", rowAttr, tbody)>>
       \o [i \in 1..Len(p) |-> [l[i] EXCEPT !.parent = row + p[i]]]

StripDocs ==
  {MkStripDoc(x[1], x[2], x[3], x[4], x[5][1], x[5][2]) : x \in
     { <<Attr("", StripMeAttr, <<>>)>>,
       <<Attr("", "class", <<"a">>), Attr("", StripMeAttr, <<>>)>> }
     \X BOOLEAN \X BOOLEAN
     \X { <<>>, <<Attr("", TunnelledIdAttr, <<"b">>)>> }
     \X UNION {{pl \in ParentVecs(n) \X [1..n -> RowLabels] :
                  \A i \in 1..n : pl[1][i] # 0 => pl[2][pl[1][i]].type = "elem"} :
               n \in 0..MaxRowNodes}}

StripInputs ==
  {Input(FileA, <<"M">>, d, DefaultOpts, f) : d \in StripDocs, f \in BOOLEAN}

StripInit == InitFile(StripInputs)

StripSpec == StripInit /\ [][NextFile]_vars

----------------------------------------------------------------------------
(* The attribute family: a root alone, a root with a plain child, or a    *)
(* plain root with a child, the root or the child a div or a tomato       *)
(* carrying up to MaxAttrs attributes of different keys; debug ids forced *)
(* or not.                                                                 *)

MaxAttrs == 2

AttrPool ==
  { Attr("", FieldRefAttr, <<"a">>),
    Attr("", MockAttr, <<>>),
    Attr("", TunnelledIdAttr, <<"i">>),
    Attr("", "src", SrcC),
    Attr("", "class", <<"k", "'">>),
    Attr("xlink", "href", <<"h">>),
    Attr("", DebugIdAttr, <<"d">>),
    Attr("", DebugIdAttr, <<>>),
    Attr("", StripMeAttr, <<>>) }

AttrLists ==
  UNION {{l \in [1..k -> AttrPool] : \A i, j \in 1..k : l[i].key = l[j].key => i = j} :
           k \in 0..MaxAttrs}

AttrDocs ==
  UNION {
    { MkDoc(<<0>>, <<ElemNode(tag, al, Nil)>>),
      MkDoc(<<0, 1>>, <<ElemNode(tag, al, Nil), ElemNode("div", <<>>, Nil)>>),
      MkDoc(<<0, 1>>, <<ElemNode("div", <<>>, Nil), ElemNode(tag, al, Nil)>>) } :
    tag \in {"div", "tomato"}, al \in AttrLists }

AttrInputs == {Input(FileA, <<"M">>, d, DefaultOpts, f) : d \in AttrDocs, f \in BOOLEAN}

AttrInit == InitFile(AttrInputs)

AttrSpec == AttrInit /\ [][NextFile]_vars

----------------------------------------------------------------------------
(* The nesting family: a div root over a tree of up to MaxNestNodes nodes *)
(* in all: marked divs, nested template references with a src, marked   *)
(* or not, and texts.                                                      *)

MaxNestNodes == 5

SrcDirB == <<"d", "/", "b", ".", "h", "t", "m", "t", "o">>

NestLabels ==
  { ElemNode("div", <<Attr("", FieldRefAttr, <<"a">>), Attr("", "class", <<"k">>)>>, Nil),
    ElemNode("tomato", <<Attr("", FieldRefAttr, <<"b">>), Attr("", "src", SrcC),
                         Attr("", "class", <<"k">>)>>, Nil),
    ElemNode("tomato", <<Attr("", "src", SrcDirB)>>, Nil),
    TextNode(<<"x">>, Nil) }

\* The parent vectors of the trees of n nodes: node 1 is the only root.
NestTrees(n) == {p \in ParentVecs(n) : \A i \in 2..n : p[i] # 0}

NestDocs ==
  UNION {
    { MkDoc(pl[1], <<ElemNode("div", <<>>, Nil)>> \o pl[2]) : pl \in
        { pl \in NestTrees(n) \X [1..(n - 1) -> NestLabels] :
            \A i \in 2..n : pl[1][i] # 1 => pl[2][pl[1][i] - 1].type = "elem" } } :
    n \in 1..MaxNestNodes }

NestInputs == {Input(FileA, <<"M">>, d, DefaultOpts, FALSE) : d \in NestDocs}

NestInit == InitFile(NestInputs)

NestSpec == NestInit /\ [][NextFile]_vars

----------------------------------------------------------------------------
(* The style family: the markup of a template followed by up to           *)
(* MaxTailLen pieces, each a text, a <style> or a </style>.               *)

MaxTailLen == 3

TailPieces == {"t", StyleOpen, StyleClose}

StyleContents == {<<"M">> \o s : s \in UNION {[1..k -> TailPieces] : k \in 0..MaxTailLen}}

StyleInputs ==
  { Input(FileA, c,
          MkDoc(<<0, 1>>, <<ElemNode("div", <<>>, Nil), TextNode(<<"x">>, Nil)>>),
          DefaultOpts, FALSE) : c \in StyleContents }

StyleInit == InitFile(StyleInputs)

StyleSpec == StyleInit /\ [][NextFile]_vars

----------------------------------------------------------------------------
(* The program: main, GenerateTomatoes, GenerateViews, writeTomatoOutput. *)

PanicLanguage == "panic: That language is currently not supported!"
WalkError == "lstat: no such file or directory"
MkdirError == "mkdir: permission denied"
WriteError == "write: input/output error"

Panics == {PanicLanguage, "panic: slice bounds out of range"}

\* strings.HasSuffix.
HasSuffix(str, suffix) ==
  Len(str) >= Len(suffix) /\ SubSeq(str, Len(str) - Len(suffix) + 1, Len(str)) = suffix

\* collectTomatoFiles: the files of the directory with the tomato
\* extension; the walk yields them in one of their orders.
collectTomatoFiles(files) == {p \in DOMAIN files : HasSuffix(p, tomatoFileExtension)}

\* main, lines 13-23, getLanguage, and GenerateTomatoes, lines 121-129:
\* the flags are parsed, the language is checked, the files are collected
\* and the generator is made.
Main ==
  /\ run.pc \in {"none", "exit"}
  /\ hist.nruns < MaxRuns
  /\ \E walkFails \in BOOLEAN, order \in Orders(collectTomatoFiles(fs)) :
       LET r == NewRun("generate", fs, disk, hist.events)
       IN run' = IF cfg.language # "ts"
                 THEN [r EXCEPT !.pc = "report", !.err = PanicLanguage]
                 ELSE IF walkFails
                 THEN [r EXCEPT !.pc = "report", !.err = WalkError]
                 ELSE IF MakeTomatoGenerator("TypeScript") # ""
                 THEN [r EXCEPT !.pc = "report", !.err = MakeTomatoGenerator("TypeScript")]
                 ELSE [r EXCEPT !.files = order, !.queue = order]
  /\ hist' = [hist EXCEPT !.events = <<>>]
  /\ UNCHANGED <<fileVars, cfg, fs, disk>>

\* GenerateViews: one turn of the loop over the files.
GenerateNext_SharedVisitor ==
  /\ run.pc = "generate"
  /\ run.queue # <<>>
  /\ LET file == Head(run.queue)
         r == generateViewOf(cfg.opts, file, fs[file], cfg.forceDebugIds)
         before == IF DOMAIN run.views = {} THEN <<>>
                   ELSE run.views[CHOOSE k \in DOMAIN run.views : TRUE].ViewText
     IN run' = IF abortsOn(r.err)
               THEN [run EXCEPT !.pc = "report", !.err = r.err]
               ELSE [run EXCEPT
                       !.views = (file :> View(before \o r.view.ViewText, r.view.CssText))
                                   @@ run.views,
                       !.queue = Tail(run.queue)]
  /\ UNCHANGED <<fileVars, cfg, fs, disk, hist>>
GenerateNext ==
  /\ run.pc = "generate"
  /\ run.queue # <<>>
  /\ LET file == Head(run.queue)
         r == generateViewOf(cfg.opts, file, fs[file], cfg.forceDebugIds)
     IN run' = IF abortsOn(r.err)
               THEN [run EXCEPT !.pc = "report", !.err = r.err]
               ELSE [run EXCEPT !.views = (file :> r.view) @@ run.views,
                                !.queue = Tail(run.queue)]
  /\ UNCHANGED <<fileVars, cfg, fs, disk, hist>>

\* writeTomatoOutput, lines 191-227: the texts are aggregated, the output
\* directory is made and the stylesheet file is written if changed.
WriteCss ==
  /\ run.pc = "generate"
  /\ run.queue = <<>>
  /\ \E keys \in Orders(DOMAIN run.views), mkdirFails \in BOOLEAN, outcome \in WriteOutcomes :
       LET a == aggregate(run.views, keys, cfg.opts)
           css == cssOutFile(cfg.outFile)
           r == [run EXCEPT !.viewText = a.viewText, !.cssText = a.cssText]
       IN IF mkdirFails
          THEN /\ run' = [r EXCEPT !.pc = "report", !.err = MkdirError]
               /\ disk' = disk
          ELSE IF writesFile(disk[css], a.cssText)
          THEN /\ disk' = [disk EXCEPT ![css] = WriteFile(@, a.cssText, outcome)]
               /\ run' = IF outcome = "ok"
                         THEN [r EXCEPT !.pc = "writeCode", !.wroteCss = TRUE]
                         ELSE [r EXCEPT !.pc = "report", !.wroteCss = TRUE, !.err = WriteError]
          ELSE /\ run' = [r EXCEPT !.pc = "writeCode"]
               /\ disk' = disk
  /\ UNCHANGED <<fileVars, cfg, fs, hist>>

\* writeTomatoOutput, line 229: the code file is written if changed.
WriteCode ==
  /\ run.pc = "writeCode"
  /\ \E outcome \in WriteOutcomes :
       IF writesFile(disk[cfg.outFile], run.viewText)
       THEN /\ disk' = [disk EXCEPT ![cfg.outFile] = WriteFile(@, run.viewText, outcome)]
            /\ run' = IF outcome = "ok"
                      THEN [run EXCEPT !.pc = "report", !.wroteCode = TRUE]
                      ELSE [run EXCEPT !.pc = "report", !.wroteCode = TRUE, !.err = WriteError]
       ELSE /\ run' = [run EXCEPT !.pc = "report"]
            /\ disk' = disk
  /\ UNCHANGED <<fileVars, cfg, fs, hist>>

\* The exit status of a Go program whose main returns.
exitStatus(err) == 0

\* main, lines 23-30: the error is printed, main returns and the process
\* exits; a panic ends the process with status 2 and prints to stderr.
MainReturn ==
  /\ run.pc = "report"
  /\ run' = [run EXCEPT
               !.pc = "exit",
               !.stdout = IF run.err # "" /\ run.err \notin Panics THEN run.err ELSE "",
               !.exitCode = IF run.err \in Panics THEN 2 ELSE exitStatus(run.err)]
  /\ hist' = [hist EXCEPT !.nruns = @ + 1, !.last = run', !.prev = hist.last]
  /\ UNCHANGED <<fileVars, cfg, fs, disk>>

\* Texts an author may give a text node between two runs.
EditTexts == {<<"x">>, <<"z">>, <<"x", "\n">>, <<" ">>}

\* Between two runs, the author changes the text of one text node of one
\* template.
EditText ==
  /\ run.pc = "exit"
  /\ hist.nruns < MaxRuns
  /\ hist.events = <<>>
  /\ \E f \in collectTomatoFiles(fs), t \in EditTexts :
       /\ fs[f].readable
       /\ \E n \in DOMAIN fs[f].parsed :
            /\ fs[f].parsed[n].type = "text"
            /\ fs[f].parsed[n].text # t
            /\ fs' = [fs EXCEPT ![f].parsed[n].text = t]
            /\ hist' = [hist EXCEPT !.events =
                          <<[kind |-> "text", file |-> f, node |-> n,
                             old |-> fs[f].parsed[n].text, new |-> t]>>]
  /\ UNCHANGED <<fileVars, cfg, disk, run>>

NextRun == Main \/ GenerateNext \/ WriteCss \/ WriteCode \/ MainReturn \/ EditText

\* The templates of the input directory.
RunTemplates ==
  { SourceFile(TRUE, <<"M">>,
               MkDoc(<<0, 1>>, <<ElemNode("div", <<>>, Nil), TextNode(<<"x">>, Nil)>>)),
    SourceFile(TRUE, <<"M", StyleOpen, "c1", StyleClose>>,
               MkDoc(<<0, 1>>, <<ElemNode("div", <<>>, Nil), TextNode(<<"x">>, Nil)>>)),
    SourceFile(TRUE, <<"M", StyleOpen, "c2", StyleClose>>,
               MkDoc(<<0, 1, 2>>,
                     <<ElemNode("div", <<>>, Nil),
                       ElemNode("tomato", <<Attr("", "src", SrcC)>>, Nil),
                       TextNode(<<"x">>, Nil)>>)),
    SourceFile(TRUE, <<"M">>,
               MkDoc(<<0, 1>>, <<ElemNode("div", <<>>, Nil), ElemNode("tomato", <<>>, Nil)>>)),
    SourceFile(TRUE, <<"M">>, SkeletonDoc),
    SourceFile(FALSE, <<>>, SkeletonDoc) }

PathList == <<FileBig, FileA, FileB>>

TemplatePaths == {PathList[i] : i \in 1..(IF MaxFiles < Len(PathList) THEN MaxFiles ELSE Len(PathList))}

\* A file of the input directory that is no template.
OtherPath == <<"v", "/", "a", ".", "t", "s">>

Directories ==
  UNION {{f @@ (OtherPath :> SourceFile(TRUE, <<"M">>, SkeletonDoc)) :
            f \in [S -> RunTemplates]} : S \in SUBSET TemplatePaths}

\* The output files before the first run: (stylesheet file, code file);
\* absent, readable with other bytes (the stylesheet as long as that of
\* one template), or unreadable.
OldDisks ==
  { <<NoFile, NoFile>>,
    <<DiskFile(TRUE, <<"stale", "\n\n">>), DiskFile(TRUE, <<"stale">>)>>,
    <<DiskFile(FALSE, <<"stale">>), DiskFile(TRUE, <<"stale">>)>>,
    <<NoFile, DiskFile(FALSE, <<"stale">>)>> }

RunInit ==
  /\ input = Input(FileA, <<"M">>, SkeletonDoc, DefaultOpts, FALSE)
  /\ pc = "load"
  /\ doc = SkeletonDoc
  /\ ts = TravState(NewVisitor(DefaultOpts, FALSE, getViewName(FileA)), <<>>, "")
  /\ unit = NoUnit
  /\ cfg \in {[language |-> l, opts |-> DefaultOpts, forceDebugIds |-> FALSE,
               outFile |-> o] : l \in {"ts", "js"}, o \in {OutFile, ScssOutFile}}
  /\ fs \in Directories
  /\ disk \in {(cssOutFile(cfg.outFile) :> d[1]) @@ (cfg.outFile :> d[2]) : d \in OldDisks}
  /\ run = NoRun
  /\ hist = NoHist

RunSpec == RunInit /\ [][NextRun]_vars

----------------------------------------------------------------------------
(* Vocabulary of the properties of one file's compilation. *)

RefError == "Tomato element with no 'src' attribute!"

\* The root of the template of a document without unwrap marker.
TemplateRoot(d) == FirstChild(d, Body)

RECURSIVE IsUnder(_, _, _)
IsUnder(d, i, n) == i # Nil /\ (i = n \/ IsUnder(d, d[i].parent, n))

TemplateNodes(d, root) == {i \in DOMAIN d : root # Nil /\ IsUnder(d, i, root)}

IsTomato(d, n) == d[n].type = "elem" /\ d[n].data = "tomato"

HasNoSrc(d, n) == \A i \in 1..Len(d[n].attr) : d[n].attr[i].key # "src"

\* n lies below a nested template reference: a tomato element other than
\* the root that is a proper ancestor of n.
InNested(d, root, n) ==
  \E a \in TemplateNodes(d, root) : a # root /\ a # n /\ IsTomato(d, a) /\ IsUnder(d, n, a)

Terminated == pc \in {"done", "failed"}

FailedWith(e) ==
  /\ pc # "done"
  /\ pc = "failed" => ts.err = e
  /\ unit = NoUnit

\* A text the code must emit: some character is not white space, or is NBSP.
Printable(text) == \E i \in 1..Len(text) : text[i] \notin {" ", "\t", "\n", "\r"}

\* The tokens of buf from position i + 1 up to the next token stop.
UpTo(buf, i, stop) ==
  LET j == SetMin({k \in (i + 1)..(Len(buf) + 1) : k = Len(buf) + 1 \/ buf[k] = stop})
  IN SubSeq(buf, i + 1, j - 1)

Positions(buf, tok) == SortedSeq({i \in 1..Len(buf) : buf[i] = tok})

CtorToken == "\n  constructor(doc: Document = document) {"

\* The names of the fields a class text declares, in order.
DeclNames(out) ==
  LET ctor == Positions(out, CtorToken)
      at == SortedSeq({i \in 1..Len(out) : out[i] = "\n  " /\ ctor # <<>> /\ i < ctor[1]})
  IN [k \in 1..Len(at) |-> UpTo(out, at[k], ": ")]

\* The names of the fields a class text assigns, in order.
AssignNames(out) ==
  LET at == Positions(out, "this.")
  IN [k \in 1..Len(at) |-> UpTo(out, at[k], " = ")]

\* The marker value of a node.
RefVal(d, n) ==
  LET at == {i \in 1..Len(d[n].attr) : d[n].attr[i].key = FieldRefAttr}
  IN IF at = {} THEN <<>> ELSE d[n].attr[SetMin(at)].val

----------------------------------------------------------------------------
(* C4 *)

SrclessTomatoes(d, root) == {n \in TemplateNodes(d, root) : IsTomato(d, n) /\ HasNoSrc(d, n)}

\* C4 as stated: whenever any node of the template is a tomato element
\* without src attribute, the compilation fails with the reference error
\* and yields no unit.
C4_AnySrclessTomatoFails ==
  (pc # "load" /\ SrclessTomatoes(doc, TemplateRoot(doc)) # {}) => FailedWith(RefError)

ReachedSrcless(d, root) ==
  {n \in SrclessTomatoes(d, root) : n # root /\ ~InNested(d, root, n)}

\* C4, amended: whenever a tomato element that is not the root and does not
\* lie below another nested template reference has no src attribute, the
\* compilation fails with the reference error and yields no unit.
C4_ReachedSrclessTomatoFails ==
  (pc # "load" /\ ReachedSrcless(doc, TemplateRoot(doc)) # {}) => FailedWith(RefError)

\* A compilation that failed on a tomato without src two levels down.
C4_Witness ==
  /\ pc = "failed"
  /\ ts.err = RefError
  /\ \E n \in ReachedSrcless(doc, TemplateRoot(doc)) : doc[n].parent # TemplateRoot(doc)

----------------------------------------------------------------------------
(* C5 *)

MarkedNodes(d, root) ==
  SortedSeq({n \in TemplateNodes(d, root) : d[n].type = "elem" /\ RefVal(d, n) # <<>>})

Count(seq, x) == Cardinality({k \in 1..Len(seq) : seq[k] = x})

\* C5 as stated: in the generated class, every marked node of the template
\* has exactly one declaration of its name, at the node's position among the
\* marked nodes in document order, and exactly one assignment.
C5_EveryMarkedNodeDeclaredOnce ==
  pc = "done" =>
    LET m == MarkedNodes(doc, TemplateRoot(doc))
        decl == DeclNames(unit.ViewText)
        asg == AssignNames(unit.ViewText)
    IN \A k \in 1..Len(m) :
         /\ Count(decl, RefVal(doc, m[k])) = 1
         /\ k <= Len(decl) /\ decl[k] = RefVal(doc, m[k])
         /\ Count(asg, RefVal(doc, m[k])) = 1

EmittedMarkedNodes(d, root) ==
  SortedSeq({n \in TemplateNodes(d, root) :
               /\ d[n].type = "elem" /\ RefVal(d, n) # <<>>
               /\ n # root /\ ~InNested(d, root, n)})

\* C5, amended: the declarations of the generated class are, in order, one
\* per marked element that is neither the root nor below a nested template
\* reference, in document order and named by the marker's value, and the
\* constructor's assignments are the same names in the same order.
C5_EmittedMarkedNodesDeclaredInOrder ==
  pc = "done" =>
    LET m == EmittedMarkedNodes(doc, TemplateRoot(doc))
        names == [k \in 1..Len(m) |-> RefVal(doc, m[k])]
    IN /\ DeclNames(unit.ViewText) = names
       /\ AssignNames(unit.ViewText) = names

\* A class generated from two marked sub-elements of different names.
C5_Witness ==
  /\ pc = "done"
  /\ LET m == EmittedMarkedNodes(doc, TemplateRoot(doc))
     IN Len(m) = 2 /\ RefVal(doc, m[1]) = <<"b">> /\ RefVal(doc, m[2]) = <<"a">>

----------------------------------------------------------------------------
(* C6 *)

Frame(lab, kids) == [lab |-> lab, kids |-> kids]

AddKid(st, kid) == [st EXCEPT ![Len(st)].kids = Append(@, kid)]

SetLab(st, lab) == [st EXCEPT ![Len(st)].lab = lab]

NextPos(buf, i, stop) ==
  SetMin({k \in (i + 1)..(Len(buf) + 1) : k = Len(buf) + 1 \/ buf[k] = stop})

\* What the constructor text builds when run against the runtime library
\* (append, setAttr and appendText return their receiver): the tree of the
\* objects constructed, each with what was appended to it, in order.
RECURSIVE Built(_, _, _)
Built(buf, i, st) ==
  IF i > Len(buf) THEN st
  ELSE LET t == buf[i]
       IN CASE t = ".append(" -> Built(buf, i + 1, Append(st, Frame(<<"?">>, <<>>)))
            [] t = "('" -> Built(buf, i + 2, SetLab(st, <<"elem", buf[i + 1]>>))
            [] t = "super(doc.createElement('" ->
                 Built(buf, i + 2, SetLab(st, <<"elem", buf[i + 1]>>))
            [] t = ">new " ->
                 Built(buf, NextPos(buf, i, "(doc)") + 1,
                       SetLab(st, <<"new">> \o UpTo(buf, i, "(doc)")))
            [] t = ".appendText('" ->
                 Built(buf, NextPos(buf, i, "')") + 1,
                       AddKid(st, Frame(<<"text">> \o UpTo(buf, i, "')"), <<>>)))
            [] t = ".setAttr('" -> Built(buf, NextPos(buf, i, "')") + 1, st)
            [] t = ")" ->
                 IF Len(st) < 2 THEN <<Frame(<<"unbalanced">>, <<>>)>>
                 ELSE Built(buf, i + 1, AddKid(SubSeq(st, 1, Len(st) - 1), st[Len(st)]))
            [] OTHER -> Built(buf, i + 1, st)

BuiltTree(buf) ==
  LET st == Built(buf, 1, <<Frame(<<"this">>, <<>>)>>)
  IN IF Len(st) = 1 THEN st[1] ELSE Frame(<<"unbalanced">>, <<>>)

\* The structure of the template: an element with its emitted children, a
\* nested template reference as a leaf, a text with its literal.
RECURSIVE Structure(_, _, _)
RECURSIVE StructureOf(_, _, _)
Structure(d, n, isRoot) ==
  IF d[n].type = "text"
  THEN Frame(<<"text">> \o escapeText(ReplaceAll(d[n].text, "\n", <<>>)), <<>>)
  ELSE IF ~isRoot /\ IsTomato(d, n)
       THEN Frame(<<"new">> \o getViewName(getAttr(d[n], "src")), <<>>)
       ELSE Frame(<<"elem", d[n].data>>, StructureOf(d, Kids(d, n), 1))
StructureOf(d, kids, i) ==
  IF i > Len(kids) THEN <<>>
  ELSE (IF d[kids[i]].type = "elem" \/ Printable(d[kids[i]].text)
        THEN <<Structure(d, kids[i], FALSE)>> ELSE <<>>)
       \o StructureOf(d, kids, i + 1)

RootIsElement(d) == TemplateRoot(d) # Nil /\ d[TemplateRoot(d)].type = "elem"

\* C6: the constructor of a generated class builds the structure of its
\* template: every element and text is appended to the object of its
\* template parent, the children of a parent in document order.
C6_ConstructorBuildsTemplateStructure ==
  (pc = "done" /\ RootIsElement(doc)) =>
    BuiltTree(ts.v.domConstruction) = Structure(doc, TemplateRoot(doc), TRUE)

\* A class generated from a root with a sub-element holding a child of its
\* own.
C6_Witness ==
  /\ pc = "done" /\ RootIsElement(doc)
  /\ \E n \in TemplateNodes(doc, TemplateRoot(doc)) :
       /\ doc[n].parent \notin {Body, TemplateRoot(doc)}
       /\ ~InNested(doc, TemplateRoot(doc), n)
       /\ doc[doc[n].parent].data = "div"

----------------------------------------------------------------------------
(* C7 *)

TextNodes(d, root) == {n \in TemplateNodes(d, root) : d[n].type = "text"}

Occurs(buf, sub) == \E i \in 0..Len(buf) : OccursAt(buf, sub, i)

\* C7: a text node outside a nested template reference yields an
\* appendText call exactly if one of its characters is not white space or
\* is NBSP; no call is empty; the text of a single NBSP yields a call
\* carrying it.
C7_TextEmittedIffPrintable ==
  pc = "done" =>
    \A n \in TextNodes(doc, TemplateRoot(doc)) :
      ~InNested(doc, TemplateRoot(doc), n) =>
        /\ Len(Positions(ts.v.domConstruction, ".appendText('"))
             = (IF Printable(doc[n].text) THEN 1 ELSE 0)
        /\ ~Occurs(ts.v.domConstruction, <<".appendText('", "')">>)
        /\ doc[n].text = <<NBSP>> =>
             Occurs(ts.v.domConstruction, <<".appendText('", NBSP, "')">>)
        /\ Occurs(unit.ViewText, ts.v.domConstruction)

\* A class generated from a text node of one NBSP.
C7_Witness ==
  /\ pc = "done"
  /\ \E n \in TextNodes(doc, TemplateRoot(doc)) :
       doc[n].text = <<NBSP>> /\ ~InNested(doc, TemplateRoot(doc), n)
  /\ Occurs(unit.ViewText, <<".appendText('", NBSP, "')">>)

----------------------------------------------------------------------------
(* C8 *)

ElementKids(d, n) == {c \in DOMAIN d : d[c].parent = n /\ d[c].type = "elem"}

HasAttrKey(d, n, key) == \E i \in 1..Len(d[n].attr) : d[n].attr[i].key = key

\* The first node of the body carries the unwrap marker and wraps a single
\* tbody that wraps a single row.
WrapsOneRow(d) ==
  LET table == FirstChild(d, Body)
  IN /\ table # Nil /\ d[table].type = "elem" /\ HasAttrKey(d, table, StripMeAttr)
     /\ \E b \in ElementKids(d, table) :
          /\ ElementKids(d, table) = {b} /\ d[b].data = "tbody"
          /\ \E r \in ElementKids(d, b) : ElementKids(d, b) = {r} /\ d[r].data = "tr"

WrappedRow(d) ==
  CHOOSE r \in DOMAIN d : d[r].data = "tr" /\ d[d[r].parent].data = "tbody"

\* The same template with the row as the literal root: the row is the
\* first child of the body and the wrapper is gone.
RowAsRoot(d) ==
  [d EXCEPT ![WrappedRow(d)].parent = Body, ![FirstChild(d, Body)].parent = Nil]

\* C8: a template whose marked root wraps a single tbody wrapping a single
\* row compiles to the unit of the template whose root is that row.
C8_WrappedRowCompilesAsRow ==
  (Terminated /\ WrapsOneRow(input.parsed)) =>
    LET lit == g_generateView(input.opts, input.fileName, input.contents,
                              RowAsRoot(input.parsed), input.forceDebugIds)
    IN /\ pc = "done" => lit.err = "" /\ unit = lit.view
       /\ pc = "failed" => lit.err = ts.err

\* A class generated from a wrapped row with children, whose wrapper has an
\* attribute of its own.
C8_Witness ==
  /\ pc = "done" /\ WrapsOneRow(input.parsed)
  /\ HasAttrKey(input.parsed, FirstChild(input.parsed, Body), "class")
  /\ Kids(input.parsed, WrappedRow(input.parsed)) # <<>>
  /\ Occurs(unit.ViewText, <<"super(doc.createElement('", "tr">>)

----------------------------------------------------------------------------
(* Vocabulary of the properties of a run. *)

\* The run that finished before the run in progress (or just finished).
PrevRun == IF run.pc = "exit" THEN hist.prev ELSE hist.last

Succeeded(r) == r.pc = "exit" /\ r.err = ""

ReadableOutputs(d) == \A f \in DOMAIN d : d[f].exists /\ d[f].readable

\* The names of the classes of a code text, in order.
ClassNames(buf) ==
  LET at == Positions(buf, "\nexport class ")
  IN [k \in 1..Len(at) |-> UpTo(buf, at[k], " extends ")]

\* What GenerateViews returns for the files in the order given.
RECURSIVE ViewsOf(_, _, _)
ViewsOf(files, order, i) ==
  IF i > Len(order) THEN [p \in {} |-> NoUnit]
  ELSE (order[i] :> generateViewOf(cfg.opts, order[i], files[order[i]], cfg.forceDebugIds).view)
         @@ ViewsOf(files, order, i + 1)

\* The paths of S in ascending order of their bytes.
Ascending(S) ==
  CHOOSE o \in Orders(S) :
    \A i \in 1..Len(o), j \in 1..Len(o) : i < j =>
      \E k \in 1..Len(o[i]) :
        /\ SubSeq(o[i], 1, k - 1) = SubSeq(o[j], 1, k - 1)
        /\ k <= Len(o[j]) /\ Code(o[i][k]) < Code(o[j][k])

CompileErrors == {OpenError, "Template cannot be empty", RefError}

FailingFiles(files) ==
  {p \in collectTomatoFiles(files) :
     generateViewOf(cfg.opts, p, files[p], cfg.forceDebugIds).err \in CompileErrors}

----------------------------------------------------------------------------
(* C1 *)

\* C1 as stated: a run that follows a successful run, with nothing changed
\* in between, writes neither output file and leaves both as they were.
C1_RerunWritesNothing ==
  (run.pc # "none" /\ Succeeded(PrevRun) /\ run.since = <<>>) =>
    /\ ~run.wroteCss
    /\ ~run.wroteCode
    /\ disk = run.disk0

\* The stylesheet file and the code file are two files.
DistinctOutputs == cssOutFile(cfg.outFile) # cfg.outFile

\* C1, amended: a run that follows a successful run, with nothing changed
\* in between, the two output files distinct and both readable, writes
\* neither output file and leaves both as they were.
C1_UnchangedRerunWritesNothing ==
  (run.pc # "none" /\ Succeeded(PrevRun) /\ run.since = <<>>
     /\ DistinctOutputs /\ ReadableOutputs(run.disk0)) =>
    /\ ~run.wroteCss
    /\ ~run.wroteCode
    /\ disk = run.disk0

\* A second run of two templates with a stylesheet, after a first run that
\* wrote both files.
C1_Witness ==
  /\ Succeeded(run) /\ Succeeded(PrevRun) /\ run.since = <<>>
  /\ DistinctOutputs /\ ReadableOutputs(run.disk0)
  /\ PrevRun.wroteCss /\ PrevRun.wroteCode
  /\ Len(run.files) = 2 /\ run.cssText # <<>>

----------------------------------------------------------------------------
(* C2 *)

\* C2: the code text a run aggregates is the same for every order in which
\* the files are discovered and every order in which the map yields them,
\* its classes are those of the source paths in ascending order, and it is
\* the content of the code file once written.
C2_CodeIndependentOfDiscoveryOrder ==
  (run.pc \in {"writeCode", "report", "exit"} /\ run.files # <<>> /\ run.err = "") =>
    LET S == collectTomatoFiles(run.fs0)
        asc == Ascending(S)
    IN /\ \A order \in Orders(S), keys \in Orders(S) :
            aggregate(ViewsOf(run.fs0, order, 1), keys, cfg.opts).viewText = run.viewText
       /\ ClassNames(run.viewText) = [k \in 1..Len(asc) |-> getViewName(asc[k])]
       /\ run.pc = "exit" => disk[cfg.outFile].data = run.viewText

\* A successful run that discovered v/a.htmto before v/B.htmto.
C2_Witness ==
  /\ Succeeded(run) /\ run.wroteCode
  /\ run.files = <<FileA, FileBig>>
  /\ ClassNames(disk[cfg.outFile].data) = <<getViewName(FileBig), getViewName(FileA)>>

----------------------------------------------------------------------------
(* C3 *)

\* C3: when the compilation of a file of the directory fails with a load
\* or reference error, the run ends with an error and has written neither
\* output file: both are as the run found them.
C3_CompileErrorWritesNothing ==
  (run.pc # "none" /\ run.files # <<>> /\ FailingFiles(run.fs0) # {}) =>
    /\ run.pc \notin {"writeCode"}
    /\ run.pc \in {"report", "exit"} => run.err \in CompileErrors
    /\ ~run.wroteCss /\ ~run.wroteCode
    /\ disk = run.disk0

\* A run that compiled one file and failed on the next with a reference
\* error, the output files present.
C3_Witness ==
  /\ run.pc = "exit" /\ run.err = RefError
  /\ DOMAIN run.views # {}
  /\ ReadableOutputs(disk)

----------------------------------------------------------------------------
(* C9 *)

TextEdited == Len(run.since) = 1 /\ run.since[1].kind = "text"

\* What head emits for a text: its literal, or nothing.
Literal(text) ==
  IF Printable(text) THEN <<"'">> \o escapeText(ReplaceAll(text, "\n", <<>>)) ELSE <<>>

\* The edit changed the literal of a text node that the compilation of a
\* template emits.
EditChangesLiteral ==
  LET e == run.since[1]
      d == run.fs0[e.file].parsed
  IN /\ e.file \in collectTomatoFiles(run.fs0)
     /\ IsUnder(d, e.node, TemplateRoot(d))
     /\ ~InNested(d, TemplateRoot(d), e.node)
     /\ Literal(e.old) # Literal(e.new)

\* C9 as stated: a successful run that follows a successful run and the
\* change of one template's text, a change that alters the literal of an
\* emitted text, writes both output files.
C9_TextChangeRewritesBoth ==
  (Succeeded(run) /\ Succeeded(PrevRun) /\ TextEdited /\ EditChangesLiteral) =>
    run.wroteCss /\ run.wroteCode

\* C9, amended: a successful run that follows a successful run and the
\* change of one template's text, the two output files distinct and both
\* readable, does not write
\* the stylesheet file; it writes the code file exactly if the aggregated
\* code differs from that of the run before, as it does when the edit
\* changed the literal of an emitted text.
C9_TextChangeRewritesCodeOnly ==
  (Succeeded(run) /\ Succeeded(PrevRun) /\ TextEdited
     /\ DistinctOutputs /\ ReadableOutputs(run.disk0)) =>
    /\ ~run.wroteCss
    /\ run.wroteCode <=> run.viewText # PrevRun.viewText
    /\ EditChangesLiteral => run.wroteCode
    /\ disk[cfg.outFile].data = run.viewText

\* A rerun after a text change that wrote the code file and left a
\* non-empty stylesheet untouched.
C9_Witness ==
  /\ Succeeded(run) /\ Succeeded(PrevRun) /\ TextEdited
  /\ DistinctOutputs /\ ReadableOutputs(run.disk0)
  /\ run.wroteCode /\ ~run.wroteCss
  /\ run.cssText # <<>>
  /\ EditChangesLiteral

----------------------------------------------------------------------------
(* C10 *)

\* C10: a run that failed has reported its error and exited with a
\* non-zero status.
C10_FailedRunExitsNonZero ==
  (run.pc = "exit" /\ run.err # "") =>
    /\ run.exitCode # 0
    /\ run.err \notin Panics => run.stdout = run.err

----------------------------------------------------------------------------
(* C15 *)

Has(c, tok) == \E i \in 1..Len(c) : c[i] = tok

LastPos(c, tok) == SetMax({i \in 1..Len(c) : c[i] = tok})

\* The block from one of the last delimiters to the other, whichever comes
\* first, and the text between them.
BlockFrom(c) == SetMin({LastPos(c, StyleOpen), LastPos(c, StyleClose)})
BlockTo(c) == SetMax({LastPos(c, StyleOpen), LastPos(c, StyleClose)})

Enclosed(c) == SubSeq(c, BlockFrom(c) + 1, BlockTo(c) - 1)

Excised(c) == SubSeq(c, 1, BlockFrom(c) - 1) \o SubSeq(c, BlockTo(c) + 1, Len(c))

PanicError == "panic: slice bounds out of range"

\* C15: once a file that holds both delimiters is loaded, the load has
\* completed, the stylesheet is the text between the last <style> and the
\* last </style> and the document is that of the raw text without the
\* block; once a file that holds one delimiter or none is loaded, the
\* stylesheet is empty and the document is that of the raw text.
C15_StyleBlockExcised ==
  pc # "load" =>
    IF Has(input.contents, StyleOpen) /\ Has(input.contents, StyleClose)
    THEN /\ ts.err # PanicError
         /\ ts.v.cssText = Enclosed(input.contents)
         /\ doc = ParseHtml(Excised(input.contents), input.parsed)
    ELSE /\ ts.v.cssText = <<>>
         /\ doc = ParseHtml(input.contents, input.parsed)

----------------------------------------------------------------------------
(* C16 *)

EmptyError == "Template cannot be empty"

FirstElementChild(d, n) ==
  IF ElementKids(d, n) = {} THEN Nil ELSE SetMin(ElementKids(d, n))

\* The node traverse was called on at depth 0, while the walk runs.
WalkRoot == ts.agenda[Len(ts.agenda)].n

\* C16: once a file is loaded, the node the traversal starts from is the
\* first element child of the body, and when the body has no element child
\* the compilation fails with the load error, yields no unit and has
\* emitted no construction code.
C16_RootIsFirstElementOfBody ==
  pc # "load" =>
    /\ (pc = "walk" /\ ts.agenda # <<>>) => WalkRoot = FirstElementChild(doc, Body)
    /\ ElementKids(doc, Body) = {} =>
         (FailedWith(EmptyError) /\ ts.v.domConstruction = <<>>)

----------------------------------------------------------------------------
(* Vocabulary of the properties of one step of the traversal. *)

\* The call traverse is about to make, or the tail it is about to run.
Current == Head(ts.agenda)

Entering == pc = "walk" /\ ts.agenda # <<>> /\ Current.op = "head"

Exiting == pc = "walk" /\ ts.agenda # <<>> /\ Current.op = "tail"

\* The node is one the visitor emits an element for: an element that is
\* of the template and not below a nested template reference.
EmittedElement(n) ==
  doc[n].type = "elem" /\ IsUnder(doc, n, WalkRoot) /\ ~InNested(doc, WalkRoot, n)

\* What the step appended to the construction buffer.
Added ==
  SubSeq(ts'.v.domConstruction, Len(ts.v.domConstruction) + 1, Len(ts'.v.domConstruction))

OnlyAppends ==
  /\ Len(ts'.v.domConstruction) >= Len(ts.v.domConstruction)
  /\ SubSeq(ts'.v.domConstruction, 1, Len(ts.v.domConstruction)) = ts.v.domConstruction

RECURSIVE Flatten(_)
Flatten(ss) == IF ss = <<>> THEN <<>> ELSE Head(ss) \o Flatten(Tail(ss))

IsSuffix(suf, seq) ==
  Len(suf) <= Len(seq) /\ SubSeq(seq, Len(seq) - Len(suf) + 1, Len(seq)) = suf

EmittedElementOf(d, root, n) == d[n].type = "elem" /\ ~InNested(d, root, n)

----------------------------------------------------------------------------
(* C11 *)

\* The class name the claim gives a source path: the base file name minus
\* its extension, suffixed with View, first letter upcased.
BaseName(path) ==
  LET at == {i \in 1..Len(path) : path[i] = "/"}
  IN IF at = {} THEN path ELSE SubSeq(path, SetMax(at) + 1, Len(path))

MinusExtension(name) ==
  LET at == {i \in 1..Len(name) : name[i] = "."}
  IN IF at = {} THEN name ELSE SubSeq(name, 1, SetMax(at) - 1)

Capital(c) == CASE c = "b" -> "B" [] c = "c" -> "C" [] OTHER -> c

ClassNameFor(src) ==
  LET name == MinusExtension(BaseName(src)) \o <<"V", "i", "e", "w">>
  IN <<Capital(name[1])>> \o SubSeq(name, 2, Len(name))

SrcOf(d, n) ==
  LET at == {i \in 1..Len(d[n].attr) : d[n].attr[i].key = "src"}
  IN IF at = {} THEN <<>> ELSE d[n].attr[SetMin(at)].val

\* The node is a nested template reference: a tomato element that is not
\* the root and not below another nested template reference.
NestedReference(d, root, n) ==
  IsTomato(d, n) /\ n # root /\ n \in TemplateNodes(d, root) /\ ~InNested(d, root, n)

EntersReferenceWithSrc ==
  Entering /\ NestedReference(doc, WalkRoot, Current.n) /\ SrcOf(doc, Current.n) # <<>>

Declaration(name, type) == <<"\n  ">> \o name \o <<": ">> \o type \o <<";">>

\* C11: the step that enters a nested template reference with a src
\* appends an instantiation of the class named after the src and no call
\* of the element factory, appends no attribute-set call for src, and
\* queues a field declaration of that class if the node has a marker and
\* none if it has not; the generated class declares the queued fields.
C11_ReferenceInstantiatesNamedClass ==
  /\ [][EntersReferenceWithSrc =>
          LET cls == ClassNameFor(SrcOf(doc, Current.n))
              name == RefVal(doc, Current.n)
          IN /\ ts'.err = ""
             /\ OnlyAppends
             /\ Occurs(Added, <<"<">> \o cls \o <<">new ">> \o cls \o <<"(doc)">>)
             /\ Len(Positions(Added, ">new ")) = 1
             /\ Positions(Added, input.opts.ViewFactory) = <<>>
             /\ ~Occurs(Added, <<".setAttr('", "src">>)
             /\ ts'.v.refs = IF name # <<>>
                              THEN Append(ts.v.refs, name \o <<": ">> \o cls)
                              ELSE ts.v.refs]_vars
  /\ [](pc = "done" =>
          \A n \in DOMAIN doc :
            (NestedReference(doc, TemplateRoot(doc), n) /\ RefVal(doc, n) # <<>>) =>
              Occurs(unit.ViewText,
                     Declaration(RefVal(doc, n), ClassNameFor(SrcOf(doc, n)))))

\* A class generated from a marked reference to c.htmto and a reference
\* to d/b.htmto.
C11_Witness ==
  /\ pc = "done"
  /\ Occurs(unit.ViewText, <<"\n  ", "b", ": ", "C", "V", "i", "e", "w", ";">>)
  /\ Occurs(unit.ViewText, <<"this.", "b", " = ", "<", "C", "V", "i", "e", "w", ">new ">>)
  /\ Occurs(unit.ViewText, <<">new ", "B", "V", "i", "e", "w", "(doc)", ")">>)

----------------------------------------------------------------------------
(* C12 *)

\* The traversal is inside a nested template reference: about to enter or
\* to leave a node below one, or about to leave the reference itself.
InsideReference ==
  \/ InNested(doc, WalkRoot, Current.n)
  \/ Exiting /\ NestedReference(doc, WalkRoot, Current.n)

\* C12: a step that enters or leaves a node below a nested template
\* reference changes nothing of the visitor: no call, no declaration, no
\* open append; the suppression flag is set exactly while the traversal is
\* inside a reference, the step that leaves the reference clears it, and
\* the step that enters an element outside every reference appends its
\* call.
C12_ReferenceIsLeaf ==
  /\ [][/\ ((Entering \/ Exiting) /\ InNested(doc, WalkRoot, Current.n)) => ts'.v = ts.v
        /\ (Exiting /\ NestedReference(doc, WalkRoot, Current.n)) => ~ts'.v.ignoreSubtree
        /\ (Entering /\ Current.depth > 0 /\ EmittedElement(Current.n)) =>
              (OnlyAppends /\ Occurs(Added, <<".append(">>))]_vars
  /\ []((pc = "walk" /\ ts.agenda # <<>>) => (ts.v.ignoreSubtree <=> InsideReference))

\* A class generated from a reference that holds an element holding a
\* text and is followed by a marked element: the element after it is
\* emitted, the nodes below it are not.
C12_Witness ==
  /\ pc = "done"
  /\ \E r \in DOMAIN doc :
       /\ NestedReference(doc, TemplateRoot(doc), r)
       /\ \E e \in DOMAIN doc :
            /\ doc[e].parent = r /\ doc[e].type = "elem"
            /\ \E t \in DOMAIN doc : doc[t].parent = e /\ doc[t].type = "text"
       /\ \E f \in DOMAIN doc : doc[f].parent = doc[r].parent /\ f > r /\ doc[f].data = "div"
  /\ Len(Positions(ts.v.domConstruction, ".append(")) = 2
  /\ Positions(ts.v.domConstruction, ".appendText('") = <<>>

----------------------------------------------------------------------------
(* C13 *)

\* The emitted elements below the root that are open: the ancestors of
\* the node about to be entered, or the node about to be left and its
\* ancestors, outermost first.
OpenElements ==
  SortedSeq({a \in DOMAIN doc :
               /\ a # WalkRoot /\ EmittedElement(a)
               /\ IsUnder(doc, Current.n, a)
               /\ Entering => a # Current.n})

Opened(buf) == Len(Positions(buf, ".append("))
Closed(buf) == Len(Positions(buf, ")"))

\* C13: during the traversal the open-append stack holds the emitted
\* elements below the root that are open, outermost first, and one append
\* call is open per node of the stack; the step that leaves such an
\* element pops it, it being the top, and appends the one closing
\* parenthesis; no other step pops or closes; the step that enters such an
\* element pushes it; when the traversal is over the stack is empty and
\* the closing parentheses are as many as the append calls.
C13_AppendsBalancedByIdentity ==
  /\ []((pc = "walk" /\ ts.agenda # <<>>) =>
          /\ ts.v.appendStack = OpenElements
          /\ Opened(ts.v.domConstruction) - Closed(ts.v.domConstruction)
               = Len(ts.v.appendStack))
  /\ [](pc \in {"walk", "done"} /\ ts.agenda = <<>> =>
          /\ ts.v.appendStack = <<>>
          /\ Opened(ts.v.domConstruction) = Closed(ts.v.domConstruction))
  /\ [][/\ (Exiting /\ Current.n # WalkRoot /\ EmittedElement(Current.n)) =>
              /\ ts.v.appendStack # <<>>
              /\ ts.v.appendStack[Len(ts.v.appendStack)] = Current.n
              /\ ts'.v.appendStack = SubSeq(ts.v.appendStack, 1, Len(ts.v.appendStack) - 1)
              /\ OnlyAppends /\ Added = <<")">>
        /\ (Exiting /\ ~(Current.n # WalkRoot /\ EmittedElement(Current.n))) =>
              /\ ts'.v.appendStack = ts.v.appendStack
              /\ ts'.v.domConstruction = ts.v.domConstruction
        /\ (Entering /\ ts'.err = "") =>
              /\ OnlyAppends /\ Closed(Added) = 0
              /\ ts'.v.appendStack =
                    IF Current.n # WalkRoot /\ EmittedElement(Current.n)
                    THEN Append(ts.v.appendStack, Current.n)
                    ELSE ts.v.appendStack]_vars

\* A traversal about to leave a text two elements below the root, both
\* open, the inner one a sibling of an element already closed.
C13_Witness ==
  /\ pc = "walk" /\ ts.agenda # <<>> /\ Exiting
  /\ doc[Current.n].type = "text"
  /\ Len(ts.v.appendStack) = 2
  /\ ts.v.appendStack[2] = doc[Current.n].parent
  /\ Closed(ts.v.domConstruction) = 1

----------------------------------------------------------------------------
(* C14 *)

\* The attribute-set calls the claim gives a node: per attribute, in order.
Quoted(val) == Flatten([i \in 1..Len(val) |-> IF val[i] = "'" THEN <<"\\", "'">> ELSE <<val[i]>>])

Transferred(node, a) ==
  /\ a.key \notin {"_ref", "_ignorecontent"}
  /\ ~(a.key = "src" /\ node.data = "tomato")

CallFor(a) ==
  <<".setAttr('">> \o (IF a.ns # "" THEN <<a.ns, ":">> ELSE <<>>)
    \o <<IF a.key = "_id" THEN "id" ELSE a.key>> \o <<"', '">> \o Quoted(a.val) \o <<"')">>

TransferCalls(node) ==
  LET kept == SelectSeq(node.attr, LAMBDA a : Transferred(node, a))
  IN Flatten([i \in 1..Len(kept) |-> CallFor(kept[i])])

\* C14: the step that enters an emitted element, root or not, appends to
\* the construction buffer, as its last part, the attribute-set calls of
\* the node's attributes in their order: none for _ref, _ignorecontent and
\* the src of a tomato, the key id for _id, the key prefixed with the
\* namespace and the value escaped; it appends no other attribute-set
\* call, but for one more on the root when debug ids are forced.
C14_AttributeTransfer ==
  [][(Entering /\ EmittedElement(Current.n) /\ ts'.err = "") =>
       LET calls == TransferCalls(doc[Current.n])
           n == Len(Positions(Added, ".setAttr('"))
           m == Len(Positions(calls, ".setAttr('"))
       IN /\ OnlyAppends
          /\ IsSuffix(calls, Added)
          /\ n = m \/ (n = m + 1 /\ Current.depth = 0 /\ input.forceDebugIds)]_vars

\* A class generated from an element below the root that carries a blocked
\* attribute before a tunnelled id.
C14_Witness ==
  /\ pc = "done"
  /\ \E n \in DOMAIN doc :
       /\ doc[n].parent = TemplateRoot(doc) /\ doc[n].data = "div"
       /\ doc[n].attr = <<Attr("", FieldRefAttr, <<"a">>), Attr("", TunnelledIdAttr, <<"i">>)>>
  /\ Occurs(unit.ViewText, <<"createView", "('", "div", "', doc)", ".setAttr('", "id", "', '", "i", "')">>)

----------------------------------------------------------------------------
(* C17 *)

MarkedRoot(d) ==
  /\ FirstChild(d, Body) # Nil
  /\ d[FirstChild(d, Body)].type = "elem"
  /\ HasAttrKey(d, FirstChild(d, Body), StripMeAttr)

\* C17: when the first node of the body carries the unwrap marker, the
\* traversal does not start from it and the generated class holds no
\* attribute-set call for the marker.
C17_MarkerNeverEmitted ==
  MarkedRoot(input.parsed) =>
    /\ (pc = "walk" /\ ts.agenda # <<>>) => WalkRoot # FirstChild(doc, Body)
    /\ pc = "done" => ~Occurs(unit.ViewText, <<".setAttr('", StripMeAttr>>)

----------------------------------------------------------------------------
(* C18 *)

\* The calls on the root: the construction buffer up to the first append.
RootPart(buf) == UpTo(buf, 0, ".append(")

DebugIdCalls(buf) ==
  Cardinality({i \in 1..(Len(buf) - 1) : buf[i] = ".setAttr('" /\ buf[i + 1] = DebugIdAttr})

\* C18, for a root without unwrap marker: when debug ids are forced and
\* the root has no debug-id attribute, the first call on the root sets
\* debug-id to the class name without its suffix and no other call on the
\* root sets it; otherwise the only call that sets it is the one
\* transferred from the root's own attribute, if it has one; the calls
\* that set it below the root are those transferred from the nodes' own
\* attributes.
C18_DebugIdSynthesizedOnce ==
  (pc = "done" /\ RootIsElement(doc) /\ ~MarkedRoot(doc)) =>
    LET root == TemplateRoot(doc)
        part == RootPart(ts.v.domConstruction)
        own == IF HasAttrKey(doc, root, DebugIdAttr) THEN 1 ELSE 0
        below == {n \in TemplateNodes(doc, root) :
                    n # root /\ EmittedElementOf(doc, root, n) /\ HasAttrKey(doc, n, DebugIdAttr)}
    IN /\ (input.forceDebugIds /\ own = 0) =>
            /\ DebugIdCalls(part) = 1
            /\ Occurs(part, <<"this", ".setAttr('", DebugIdAttr, "', '", "A", "')">>)
       /\ ~(input.forceDebugIds /\ own = 0) => DebugIdCalls(part) = own
       /\ DebugIdCalls(part) <= 1
       /\ DebugIdCalls(ts.v.domConstruction) - DebugIdCalls(part) = Cardinality(below)

----------------------------------------------------------------------------
(* C19 *)

\* C19: a run that failed on the write of an output file has left both
\* output files as it found them.
C19_FailedWriteLeavesOutputs ==
  (run.pc \in {"report", "exit"} /\ run.err = WriteError) => disk = run.disk0

----------------------------------------------------------------------------
(* C20 *)

\* The unit of a file compiled alone: a new visitor, the walk from it and
\* the assembly.
Alone(f, file) ==
  LET v0 == NewVisitor(cfg.opts, cfg.forceDebugIds, getViewName(f))
      l == walkLoad(v0, file.contents, file.parsed)
      end == traverse(l.doc, l.ts)
  IN [v0 |-> v0, start |-> l.ts.v, err |-> end.err,
      view |-> View(generateView(end.v), getCss(end.v))]

----------------------------------------------------------------------------
(* C21 *)

\* writeTomatoOutput has aggregated the two texts of the run.
Aggregated ==
  \/ run.pc = "writeCode"
  \/ run.pc \in {"report", "exit"} /\ run.err \in {"", MkdirError, WriteError}

\* The stylesheets of the units that have one, in ascending order of the
\* source paths.
StyleBlocks(views) ==
  LET asc == Ascending(DOMAIN views)
  IN SelectSeq([k \in 1..Len(asc) |-> views[asc[k]].CssText], LAMBDA css : css # <<>>)

BlankLine == <<"\n\n">>

\* The blocks with a blank line between two of them.
Separated(blocks) ==
  Flatten([k \in 1..Len(blocks) |-> IF k < Len(blocks) THEN blocks[k] \o BlankLine
                                    ELSE blocks[k]])

\* The blocks, each followed by a blank line.
EachFollowed(blocks) == Flatten([k \in 1..Len(blocks) |-> blocks[k] \o BlankLine])

\* C21 as stated: the combined stylesheet is exactly the non-empty
\* stylesheets of the units in ascending order of the source paths, one
\* after the other or with a blank line between two of them, and nothing
\* else.
C21_StylesheetIsConcatenation ==
  Aggregated =>
    run.cssText \in {Flatten(StyleBlocks(run.views)), Separated(StyleBlocks(run.views))}

\* C21, amended: the combined stylesheet is the non-empty stylesheets of
\* the units in ascending order of the source paths, each followed by a
\* blank line, the last one included, and nothing else; a unit without a
\* stylesheet adds nothing and the text is empty when no unit has one.
C21_StylesheetIsBlocksWithBlankLines ==
  Aggregated =>
    /\ run.cssText = EachFollowed(StyleBlocks(run.views))
    /\ (\A f \in DOMAIN run.views : run.views[f].CssText = <<>>) => run.cssText = <<>>
    /\ Count(run.cssText, "\n\n")
         = Cardinality({f \in DOMAIN run.views : run.views[f].CssText # <<>>})

\* Two templates with different stylesheets, discovered in descending
\* order of their paths.
C21_Witness ==
  /\ Aggregated
  /\ run.files = <<FileA, FileBig>>
  /\ run.views[FileA].CssText = <<"c1">>
  /\ run.views[FileBig].CssText = <<"c2">>
  /\ run.cssText = <<"c2", "\n\n", "c1", "\n\n">>

----------------------------------------------------------------------------
(* C22 *)

\* The top of the open-append stack, Nil when the stack is empty.
StackTop == IF ts.v.appendStack = <<>> THEN Nil ELSE ts.v.appendStack[Len(ts.v.appendStack)]

\* The traversal has entered node n and not left it: the call of its tail
\* is pending, or the traversal ended with an error inside n.
EnteredNotExited(n) ==
  \/ \E i \in 1..Len(ts.agenda) : ts.agenda[i].op = "tail" /\ ts.agenda[i].n = n
  \/ pc = "failed"

\* The step pushes a node on the open-append stack.
Pushes ==
  /\ Len(ts'.v.appendStack) = Len(ts.v.appendStack) + 1
  /\ SubSeq(ts'.v.appendStack, 1, Len(ts.v.appendStack)) = ts.v.appendStack

\* C22: in every state of one file's traversal, the subtree-suppressed
\* flag is set only if the open-append stack is not empty and its top is a
\* tomato element that was entered and not yet left; no step taken with
\* the flag set changes the stack other than by popping that top; the flag
\* is clear when the traversal is about to leave the root, after it has
\* left the root and in the assembled state.
C22_SuppressedOnlyUnderOpenReference ==
  /\ [](ts.v.ignoreSubtree =>
          /\ StackTop # Nil
          /\ IsTomato(doc, StackTop)
          /\ EnteredNotExited(StackTop))
  /\ [][ts.v.ignoreSubtree =>
          /\ ~Pushes
          /\ \/ ts'.v.appendStack = ts.v.appendStack
             \/ /\ Exiting /\ Current.n = StackTop
                /\ ts'.v.appendStack = SubSeq(ts.v.appendStack, 1, Len(ts.v.appendStack) - 1)
                /\ ~ts'.v.ignoreSubtree]_vars
  /\ []((Exiting /\ Current.n = WalkRoot) => ~ts.v.ignoreSubtree)
  /\ []((pc \in {"walk", "done"} /\ ts.agenda = <<>>) => ~ts.v.ignoreSubtree)

\* A traversal about to enter an element below a reference that is the
\* top of the stack, the flag set.
C22_Witness ==
  /\ Entering
  /\ ts.v.ignoreSubtree
  /\ doc[Current.n].type = "elem"
  /\ StackTop = doc[Current.n].parent
  /\ IsTomato(doc, StackTop)

----------------------------------------------------------------------------
(* C23 *)

\* The texts a run of the directory as found aggregates anew.
NewTexts ==
  LET S == collectTomatoFiles(run.fs0)
  IN aggregate(ViewsOf(run.fs0, Ascending(S), 1), Ascending(S), cfg.opts)

\* The file exists and holds the data.
Holds(file, data) == file.exists /\ file.data = data

\* The step is a call of writeFileIfChanged on the path for the data that
\* returns without a call of ioutil.WriteFile.
SkipsCss == run.pc = "generate" /\ run'.pc = "writeCode" /\ ~run'.wroteCss

SkipsCode == run.pc = "writeCode" /\ run'.pc = "report" /\ run'.err = "" /\ ~run'.wroteCode

\* C23 as stated: after a successful run, whatever the output files held
\* before, the code file holds the newly aggregated code and the
\* stylesheet file holds the newly aggregated stylesheet.
C23_OutputsHoldAggregates ==
  Succeeded(run) =>
    /\ Holds(disk[cfg.outFile], NewTexts.viewText)
    /\ Holds(disk[cssOutFile(cfg.outFile)], NewTexts.cssText)

\* C23, amended: after a successful run, whatever the output files held
\* before, the code file holds the newly aggregated code and, when the
\* stylesheet file is another file than the code file, the stylesheet file
\* holds the newly aggregated stylesheet; a file is left unwritten only if
\* it was readable and held the new data already, and a write that
\* returned no error was of the whole data.
C23_DistinctOutputsHoldAggregates ==
  /\ [](Succeeded(run) =>
          /\ run.viewText = NewTexts.viewText
          /\ run.cssText = NewTexts.cssText
          /\ Holds(disk[cfg.outFile], NewTexts.viewText)
          /\ DistinctOutputs => Holds(disk[cssOutFile(cfg.outFile)], NewTexts.cssText))
  /\ [][/\ SkipsCss =>
              LET old == disk[cssOutFile(cfg.outFile)]
              IN old.exists /\ old.readable /\ old.data = run'.cssText /\ disk' = disk
        /\ SkipsCode =>
              LET old == disk[cfg.outFile]
              IN old.exists /\ old.readable /\ old.data = run.viewText /\ disk' = disk
        /\ (run.pc = "generate" /\ run'.pc = "writeCode" /\ run'.wroteCss) =>
              Holds(disk'[cssOutFile(cfg.outFile)], run'.cssText)]_vars

\* A successful first run that found a stylesheet file as long as the new
\* stylesheet with other bytes and a code file of another length, and
\* wrote both.
C23_Witness ==
  /\ Succeeded(run) /\ DistinctOutputs
  /\ hist.nruns = 1
  /\ run.disk0[cssOutFile(cfg.outFile)].readable
  /\ Len(run.disk0[cssOutFile(cfg.outFile)].data) = Len(run.cssText)
  /\ run.disk0[cssOutFile(cfg.outFile)].data # run.cssText
  /\ Len(run.disk0[cfg.outFile].data) # Len(run.viewText)
  /\ run.wroteCss /\ run.wroteCode
  /\ disk[cssOutFile(cfg.outFile)].data = run.cssText
  /\ disk[cfg.outFile].data = run.viewText

====
